---- MODULE Spec2Model ----
(***************************************************************************)
(* Model of the cron_pay plugin of Electrum                                *)
(* (electrum/plugins/cron_pay/qt.py): the schedule file, the registry of   *)
(* armed timers (Plugin.scheduled_tasks), the asyncio timers, the Qt       *)
(* signal that carries a fired task to the GUI thread, the payment         *)
(* execution and the two dialogs that append to and remove from the file.  *)
(*                                                                         *)
(* Time is counted in ticks of 1/TicksPerSecond second since midnight of   *)
(* the first day of a month, local time.                                   *)
(***************************************************************************)
EXTENDS Integers, Sequences, FiniteSets, TLC

\* ------------------------------------------------------------------ bounds
TicksPerSecond == 2
MaxDay == 1
MaxStore == 2
MaxTimers == 3
MaxFires == 2
MaxWindows == 2
MaxLnQueue == 2
MaxRestarts == 1

\* ------------------------------------------------------- calendar constants
SecondsPerMinute == 60
MinutesPerHour == 60
SecondsPerDay == 86400

TicksPerMinute == TicksPerSecond * SecondsPerMinute
TicksPerDay == TicksPerSecond * SecondsPerDay
MaxTime == MaxDay * TicksPerDay
\* a run starts at noon of the first day, or one tick later
StartTime == TicksPerDay \div 2

Min(S) == CHOOSE x \in S : \A y \in S : x <= y

\* ------------------------------------------------------------ task records
PR_TYPE_ONCHAIN == "onchain"
PR_TYPE_LN == "ln"

\* marks a key the invoice dict does not have
NoKey == "<no key>"

\* the presets of ScheduleDialog, and a text croniter rejects
EveryMinute == [minute |-> "*", hour |-> "*", day |-> "*", month |-> "*", week |-> "*"]
EveryDay == [minute |-> "0", hour |-> "0", day |-> "*", month |-> "*", week |-> "*"]
BadSchedule == [minute |-> "x", hour |-> "*", day |-> "*", month |-> "*", week |-> "*"]
\* midnight of every second day of the month: fire times more than a day apart
EveryOtherDay == [minute |-> "0", hour |-> "0", day |-> "*/2", month |-> "*", week |-> "*"]

\* amounts are held as the digits format_satoshis prints for them
SmallAmount == [int |-> "0", fract |-> "001"]
WideAmount == [int |-> "123456", fract |-> "12345678"]

OnchainInvoice(amount, message, address) ==
    [type |-> PR_TYPE_ONCHAIN, amount |-> amount, message |-> message,
     address |-> address, pubkey |-> NoKey, rhash |-> NoKey, transaction |-> FALSE]

LnInvoice(amount, message, pubkey, rhash) ==
    [type |-> PR_TYPE_LN, amount |-> amount, message |-> message,
     address |-> NoKey, pubkey |-> pubkey, rhash |-> rhash, transaction |-> FALSE]

CronItem(invoice, schedule) == [invoice |-> invoice, schedule |-> schedule]

OnchainMinute == CronItem(OnchainInvoice(SmallAmount, "rent", "addr1"), EveryMinute)
OnchainDaily == CronItem(OnchainInvoice(SmallAmount, "rent", "addr1"), EveryDay)
LnMinute == CronItem(LnInvoice(SmallAmount, "tip", "node1", "hash1"), EveryMinute)
LnWide == CronItem(LnInvoice(WideAmount, "tip", "node1", "hash2"), EveryMinute)
OnchainBad == CronItem(OnchainInvoice(SmallAmount, "gift", "addr2"), BadSchedule)
OnchainOtherDay == CronItem(OnchainInvoice(SmallAmount, "lease", "addr3"), EveryOtherDay)

\* what the user can enter in the send tab and the schedule dialog
NewItems == {OnchainMinute, OnchainDaily, LnMinute, LnWide, OnchainBad}

\* task identity of the specification: kind, amount, message, recipient
Identity(cron_item) ==
    LET inv == cron_item.invoice IN
    <<inv.type, inv.amount, inv.message,
      IF inv.type = PR_TYPE_ONCHAIN THEN inv.address ELSE <<inv.pubkey, inv.rhash>> >>

\* main_window.format_amount(x, whitespaces): format_satoshis prints the
\* digits and, with whitespaces, pads the fraction to DecimalPoint places
\* and the whole text to FormatWidth characters
DecimalPoint == 8
FormatWidth == 15

format_amount(x, whitespaces) ==
    LET trail == IF whitespaces THEN DecimalPoint - Len(x.fract) ELSE 0
        width == Len(x.int) + 1 + Len(x.fract) + trail
        lead == IF whitespaces /\ width < FormatWidth THEN FormatWidth - width ELSE 0
    IN [int |-> x.int, fract |-> x.fract, lead |-> lead, trail |-> trail]

\* the texts of a row of CronPaymentsList: address, amount, description
RowOf(cron_item) ==
    LET inv == cron_item.invoice IN
    [address |-> IF inv.type = PR_TYPE_LN THEN inv.pubkey ELSE inv.address,
     amount |-> format_amount(inv.amount, TRUE),
     message |-> inv.message]

\* ------------------------------------------------------- the schedule file
MissingFile == [kind |-> "missing", items |-> <<>>]
\* zero bytes, a truncated document, or any other text json.loads rejects
TextFile == [kind |-> "text", items |-> <<>>]
\* a JSON document that is not an object
NonDictFile == [kind |-> "nondict", items |-> <<>>]
\* a JSON object without the key 'items'
NoItemsFile == [kind |-> "noitems", items |-> <<>>]
\* a JSON object whose 'items' is not a list of task records, e.g. null
BadItemsFile == [kind |-> "baditems", items |-> <<>>]
DictFile(items) == [kind |-> "dict", items |-> items]

\* read_schedule_file: the dict it returns, {} for what it cannot use
read_schedule_file(f) ==
    IF f.kind = "missing" THEN NoItemsFile
    ELSE IF f.kind = "text" THEN NoItemsFile
    ELSE IF f.kind = "nondict" THEN NoItemsFile
    ELSE f

\* the keys an invoice dict and a task record can hold, as sort_keys orders them
InvoiceKeys == <<"address", "amount", "message", "pubkey", "rhash", "transaction", "type">>
ItemKeys == <<"invoice", "schedule">>

\* a json.dumps that leaves the key 'message' out: the round trip tells it apart
C11_HasKey(d, k) ==
    CASE k \in {"address", "pubkey", "rhash"} -> d[k] /= NoKey
      [] k = "transaction" -> d[k]
      [] k = "message" -> FALSE
      [] OTHER -> TRUE

\* the dict d has the key k
HasKey(d, k) ==
    CASE k \in {"address", "pubkey", "rhash"} -> d[k] /= NoKey
      [] k = "transaction" -> d[k]
      [] OTHER -> TRUE

\* json.dumps(d, sort_keys=True) of a dict with the keys keys[n ..]: the
\* pairs of key and value the text holds, in the order of the text
RECURSIVE json_dumps(_, _, _)
json_dumps(d, keys, n) ==
    IF n > Len(keys) THEN <<>>
    ELSE IF HasKey(d, keys[n])
         THEN <<[key |-> keys[n], value |-> d[keys[n]]]>> \o json_dumps(d, keys, n + 1)
         ELSE json_dumps(d, keys, n + 1)

\* the value a missing key stands for in the records of the model
Missing(k) == IF k = "transaction" THEN FALSE ELSE NoKey

\* json.loads of the text of a dict: each of keys with the value of its pair
json_loads(text, keys) ==
    [k \in {keys[n] : n \in 1 .. Len(keys)} |->
        IF \E n \in 1 .. Len(text) : text[n].key = k
        THEN text[CHOOSE n \in 1 .. Len(text) : text[n].key = k].value
        ELSE Missing(k)]

\* the text of one task record, and the record json.loads makes of it
DumpItem(cron_item) ==
    json_dumps([invoice |-> json_dumps(cron_item.invoice, InvoiceKeys, 1),
                schedule |-> cron_item.schedule], ItemKeys, 1)
LoadItem(text) ==
    LET d == json_loads(text, ItemKeys) IN
    [invoice |-> json_loads(d.invoice, InvoiceKeys), schedule |-> d.schedule]

\* write_schedule_file: the file after json.dumps of the dict is written,
\* held as what json.loads makes of its text
write_schedule_file(schedule_dict) ==
    DictFile([k \in 1 .. Len(schedule_dict.items) |->
                LoadItem(DumpItem(schedule_dict.items[k]))])

\* current_schedule.get('items', []) is usable as a list of task records
ItemsUsable(d) == d.kind \in {"noitems", "dict"}

\* ------------------------------------------------------------------ croniter
CronValid(schedule) ==
    /\ schedule.minute \in {"*", "0"}
    /\ schedule.hour \in {"*", "0"}
    /\ schedule.day \in {"*", "*/2"}
    /\ schedule.month = "*"
    /\ schedule.week = "*"

\* distance in ticks between two matching instants, within one month
CronPeriod(schedule) ==
    IF schedule.minute = "*" THEN TicksPerMinute
    ELSE IF schedule.hour = "*" THEN MinutesPerHour * TicksPerMinute
    ELSE IF schedule.day = "*" THEN TicksPerDay
    ELSE 2 * TicksPerDay

\* croniter(cron, base).get_next(datetime): the first match strictly after base
get_next(schedule, base) ==
    LET p == CronPeriod(schedule) IN ((base \div p) + 1) * p

\* timedelta.seconds of a non-negative delta: whole seconds, days left out
TimeDeltaSeconds(delta) == (delta \div TicksPerSecond) % SecondsPerDay

\* loop.call_later(delay, trigger_payment, cron_item): the timer handle
call_later(id, delay_seconds, cron_item, t, next_time, prev) ==
    [id |-> id, item |-> cron_item, at |-> t + delay_seconds * TicksPerSecond,
     target |-> next_time, prev |-> prev]

\* the timer start_scheduler and schedule_next_task create for cron_item at t
NewTask(id, cron_item, t, prev) ==
    LET next_time == get_next(cron_item.schedule, t)
        time_delta == next_time - t
    IN call_later(id, TimeDeltaSeconds(time_delta), cron_item, t, next_time, prev)

\* ---------------------------------------------------------------- registry
TimerIds == 1 .. MaxTimers

\* an is_task_started that finds no record started
C19_is_task_started(tasks, cron_item) == FALSE

is_task_started(tasks, cron_item) ==
    \E k \in 1 .. Len(tasks) : tasks[k].i = cron_item

RemoveAt(s, k) == SubSeq(s, 1, k - 1) \o SubSeq(s, k + 1, Len(s))

\* the first of the indices hits of a list, 0 when there is none
FirstIndex(hits) == IF hits = {} THEN 0 ELSE Min(hits)

\* a loop of start_scheduler that arms a record without croniter having
\* accepted its text
RECURSIVE C13_StartLoop(_, _, _, _, _, _)
C13_StartLoop(list, idx, tasks, tms, used, t) ==
    IF idx > Len(list)
    THEN [tasks |-> tasks, timers |-> tms, err |-> FALSE, full |-> FALSE]
    ELSE IF is_task_started(tasks, list[idx])
    THEN C13_StartLoop(list, idx + 1, tasks, tms, used, t)
    ELSE IF TimerIds \ used = {}
    THEN [tasks |-> tasks, timers |-> tms, err |-> FALSE, full |-> TRUE]
    ELSE LET id == Min(TimerIds \ used) IN
         C13_StartLoop(list, idx + 1, Append(tasks, [t |-> id, i |-> list[idx]]),
                       tms \cup {NewTask(id, list[idx], t, -1)}, used \cup {id}, t)

\* the loop of start_scheduler over _list from index idx on; used holds the
\* timer handles that exist; err: croniter raised; full: no handle left
RECURSIVE StartLoop(_, _, _, _, _, _)
StartLoop(list, idx, tasks, tms, used, t) ==
    IF idx > Len(list)
    THEN [tasks |-> tasks, timers |-> tms, err |-> FALSE, full |-> FALSE]
    ELSE LET cron_item == list[idx] IN
         IF is_task_started(tasks, cron_item)
         THEN StartLoop(list, idx + 1, tasks, tms, used, t)
         ELSE IF ~CronValid(cron_item.schedule)
         THEN [tasks |-> tasks, timers |-> tms, err |-> TRUE, full |-> FALSE]
         ELSE IF TimerIds \ used = {}
         THEN [tasks |-> tasks, timers |-> tms, err |-> FALSE, full |-> TRUE]
         ELSE LET id == Min(TimerIds \ used)
                  new_task == NewTask(id, cron_item, t, -1)
              IN StartLoop(list, idx + 1,
                           Append(tasks, [t |-> id, i |-> cron_item]),
                           tms \cup {new_task}, used \cup {id}, t)

\* start_scheduler on the file f: the registry and the timers after it
start_scheduler(f, tasks, tms, used, t) ==
    LET current_schedule == read_schedule_file(f) IN
    IF ~ItemsUsable(current_schedule)
    THEN [tasks |-> tasks, timers |-> tms, err |-> TRUE, full |-> FALSE]
    ELSE StartLoop(current_schedule.items, 1, tasks, tms, used, t)

\* the loop of schedule_next_task over _list for the fired current_item
RECURSIVE NextLoop(_, _, _, _, _, _, _, _)
NextLoop(list, idx, tasks, tms, used, t, current_item, prev) ==
    IF idx > Len(list)
    THEN [tasks |-> tasks, timers |-> tms, err |-> FALSE, full |-> FALSE]
    ELSE LET cron_item == list[idx]
             inv == cron_item.invoice
             curinv == current_item.invoice
             same == /\ inv.type = curinv.type
                     /\ inv.amount = curinv.amount
                     /\ inv.message = curinv.message
                     /\ IF inv.type = PR_TYPE_ONCHAIN
                        THEN inv.address = curinv.address
                        ELSE inv.rhash = curinv.rhash /\ inv.pubkey = curinv.pubkey
         IN
         IF is_task_started(tasks, cron_item) \/ ~same
         THEN NextLoop(list, idx + 1, tasks, tms, used, t, current_item, prev)
         ELSE IF ~CronValid(cron_item.schedule)
         THEN [tasks |-> tasks, timers |-> tms, err |-> TRUE, full |-> FALSE]
         ELSE IF TimerIds \ used = {}
         THEN [tasks |-> tasks, timers |-> tms, err |-> FALSE, full |-> TRUE]
         ELSE LET id == Min(TimerIds \ used)
                  new_task == NewTask(id, cron_item, t, prev)
              IN NextLoop(list, idx + 1,
                          Append(tasks, [t |-> id, i |-> cron_item]),
                          tms \cup {new_task}, used \cup {id}, t, current_item, prev)

\* a schedule_next_task that arms the fired task again without reading the file
C15_schedule_next_task(f, tasks, tms, used, t, current_item, prev) ==
    IF TimerIds \ used = {}
    THEN [tasks |-> tasks, timers |-> tms, err |-> FALSE, full |-> TRUE]
    ELSE LET id == Min(TimerIds \ used)
             cron_item == [current_item EXCEPT !.invoice.transaction = FALSE]
         IN [tasks |-> Append(tasks, [t |-> id, i |-> cron_item]),
             timers |-> tms \cup {NewTask(id, cron_item, t, prev)},
             err |-> FALSE, full |-> FALSE]

\* schedule_next_task(current_item) on the file f
schedule_next_task(f, tasks, tms, used, t, current_item, prev) ==
    LET current_schedule == read_schedule_file(f) IN
    IF ~ItemsUsable(current_schedule)
    THEN [tasks |-> tasks, timers |-> tms, err |-> TRUE, full |-> FALSE]
    ELSE NextLoop(current_schedule.items, 1, tasks, tms, used, t, current_item, prev)

\* ------------------------------------------------------------------- state
VARIABLES
    proc,             \* "down", "up", or "failed": Plugin.__init__ raised
    now,              \* the clock, in ticks
    file,             \* the schedule file on disk
    scheduled_tasks,  \* Plugin.scheduled_tasks: [t |-> timer handle, i |-> cron_item]
    timers,           \* the timers pending in the asyncio loop
    main_window,      \* Plugin.main_window is set
    connections,      \* connections of scheduled_payment_signal to on_scheduled_payment
    sigq,             \* queued calls of on_scheduled_payment, oldest first
    gui,              \* the execute_payment call blocked in a broadcast, if any
    lnq,              \* ln_pay_task closures queued on wallet.thread
    lnrun,            \* the ln_pay_task the wallet thread is running, if any
    win,              \* per wallet window: what is open in it
    stack,            \* the windows whose modal exec_() loops are running, innermost last
    hist              \* history of the run, read by the properties only

vars == <<proc, now, file, scheduled_tasks, timers, main_window, connections,
          sigq, gui, lnq, lnrun, win, stack, hist>>

Windows == 1 .. MaxWindows
\* mode: "main", "payments" (CronPaymentsDialog shown), "schedule" (the
\* schedule and confirm dialogs of ScheduleButton._on_clicked), "message"
\* (its show_message); rows: the list of the payments dialog; snap: the
\* current_schedule that _on_clicked read
MainWindow == [mode |-> "main", rows |-> <<>>, snap |-> NoItemsFile]
NoWindows == [w \in Windows |-> MainWindow]

\* a cron_item as the file holds it: without the key 'transaction'
Stored(cron_item) == [cron_item EXCEPT !.invoice.transaction = FALSE]

\* the timer handles some object still refers to
UsedIds == {tm.id : tm \in timers}
           \cup {scheduled_tasks[k].t : k \in 1 .. Len(scheduled_tasks)}
           \cup {sigq[k].id : k \in 1 .. Len(sigq)}
           \cup {gui[k].id : k \in 1 .. Len(gui)}

\* nfires, nquits: timers fired, processes ended; paid: the executions made,
\* as [item, target]; repaid: those made more than once; fired: the tasks
\* whose timer fired in this process; failed: the tasks whose last execution
\* failed;
\* cancelled: the tasks the user cancelled while armed; latepaid: executions
\* of a cancelled task; lost: a write dropped what another handler wrote;
\* crash: the lists before and during a write the process died in; wrote:
\* the list of the last call of write_schedule_file in this process; raised:
\* an exception of croniter left start_scheduler or schedule_next_task;
\* midfire: the tasks taken out of the file while a fired call of theirs was
\* queued or running; called: the timers with a queued call whose fire has
\* had the payment backend called; recalled: a fire had it called again;
\* miscut: a cancel in a list that showed the file as it was wrote another
\* list than the file without the record of the selected row
NoHist == [nfires |-> 0, nquits |-> 0, paid |-> {}, repaid |-> {}, fired |-> {},
           failed |-> {}, cancelled |-> {}, latepaid |-> {}, lost |-> FALSE,
           crash |-> <<>>, wrote |-> <<>>, raised |-> FALSE, midfire |-> {},
           called |-> {}, recalled |-> FALSE, miscut |-> FALSE]

\* the persisted lists a run can start from
RECURSIVE SeqsUpTo(_, _)
SeqsUpTo(S, n) ==
    IF n = 0 THEN {<<>>}
    ELSE LET shorter == SeqsUpTo(S, n - 1) IN
         shorter \cup {Append(s, x) : s \in shorter, x \in S}

InitFiles == {MissingFile, TextFile, NonDictFile, NoItemsFile, BadItemsFile}
             \cup {DictFile(s) : s \in SeqsUpTo(NewItems, MaxStore)}

InitWith(files) ==
    /\ proc = "down"
    /\ now \in {StartTime, StartTime + 1}
    /\ file \in files
    /\ scheduled_tasks = <<>>
    /\ timers = {}
    /\ main_window = FALSE
    /\ connections = 0
    /\ sigq = <<>>
    /\ gui = <<>>
    /\ lnq = <<>>
    /\ lnrun = <<>>
    /\ win = NoWindows
    /\ stack = <<>>
    /\ hist = NoHist

Init == InitWith(InitFiles)

\* the files whose records have pairwise different identities
DistinctFiles ==
    {f \in InitFiles :
        \A j \in 1 .. Len(f.items) : \A k \in 1 .. Len(f.items) :
            Identity(f.items[j]) = Identity(f.items[k]) => j = k}
InitDistinct == InitWith(DistinctFiles)

\* ----------------------------------------------------------------- actions
\* Plugin.__init__: an empty registry, no window, then start_scheduler
Startup ==
    /\ proc = "down"
    /\ LET r == start_scheduler(file, <<>>, {}, {}, now) IN
       /\ ~r.full
       /\ proc' = IF r.err THEN "failed" ELSE "up"
       /\ scheduled_tasks' = r.tasks
       /\ timers' = r.timers
       /\ hist' = [hist EXCEPT !.raised = r.err]
    /\ main_window' = FALSE
    /\ connections' = 0
    /\ UNCHANGED <<now, file, sigq, gui, lnq, lnrun, win, stack>>

\* the process ends: everything in memory is gone, the file stays
Quit ==
    /\ proc /= "down"
    /\ hist.nquits < MaxRestarts
    /\ proc' = "down"
    /\ scheduled_tasks' = <<>>
    /\ timers' = {}
    /\ main_window' = FALSE
    /\ connections' = 0
    /\ sigq' = <<>>
    /\ gui' = <<>>
    /\ lnq' = <<>>
    /\ lnrun' = <<>>
    /\ win' = NoWindows
    /\ stack' = <<>>
    /\ hist' = [hist EXCEPT !.fired = {}, !.failed = {}, !.nquits = @ + 1,
                            !.wrote = <<>>, !.raised = FALSE, !.midfire = {},
                            !.called = {}, !.recalled = FALSE]
    /\ UNCHANGED <<now, file>>

\* init_menubar_tools, called once for every wallet window that opens
init_menubar_tools(W) ==
    /\ proc = "up"
    /\ gui = <<>>
    /\ connections + 1 \in W
    /\ main_window' = TRUE
    /\ connections' = connections + 1
    /\ UNCHANGED <<proc, now, file, scheduled_tasks, timers, sigq, gui, lnq, lnrun, win, stack, hist>>

\* the timers the running asyncio loop will fire
LiveTimers == IF proc = "up" THEN timers ELSE {}

\* the clock moves: by one tick off a whole second, to the next timer
\* deadline, or to the next midnight; a pending timer is never overslept
Advance ==
    /\ \E t \in ((IF now % TicksPerSecond = 0 THEN {now + 1} ELSE {})
                 \cup {tm.at : tm \in LiveTimers}
                 \cup {((now \div TicksPerDay) + 1) * TicksPerDay}) :
        /\ t > now
        /\ t <= MaxTime
        /\ \A tm \in LiveTimers : t <= tm.at
        /\ now' = t
    /\ UNCHANGED <<proc, file, scheduled_tasks, timers, main_window, connections,
                   sigq, gui, lnq, lnrun, win, stack, hist>>

\* scheduled_payment_signal.emit(cron_item): one queued call per connection
Emit(q, n, call) == q \o [k \in 1 .. n |-> call]

\* a timer elapses in the asyncio loop: trigger_payment(cron_item)
trigger_payment ==
    /\ proc = "up"
    /\ hist.nfires < MaxFires
    /\ \E tm \in timers :
        /\ tm.at <= now
        /\ timers' = timers \ {tm}
        /\ sigq' = Emit(sigq, connections,
                        [id |-> tm.id, item |-> tm.item, target |-> tm.target])
        /\ hist' = [hist EXCEPT !.nfires = @ + 1, !.fired = @ \cup {tm.item},
                                !.failed = @ \ {tm.item}]
    /\ UNCHANGED <<proc, now, file, scheduled_tasks, main_window, connections,
                   gui, lnq, lnrun, win, stack>>

\* the head of the signal queue and what execute_payment does first with it
Call == Head(sigq)
ExecKey(call) == [item |-> Stored(call.item), target |-> call.target]

\* lines 684-688: the first registry entry equal to cron_item is dropped
CleanUp(tasks, cron_item) ==
    LET k == FirstIndex({j \in 1 .. Len(tasks) : tasks[j].i = cron_item}) IN
    IF k = 0 THEN tasks ELSE RemoveAt(tasks, k)

IdsAfterCall(tasks, q) ==
    {tm.id : tm \in timers}
    \cup {tasks[k].t : k \in 1 .. Len(tasks)}
    \cup {q[k].id : k \in 1 .. Len(q)}

Paid(h, key) ==
    [h EXCEPT !.paid = @ \cup {key},
              !.repaid = IF key \in h.paid THEN @ \cup {key} ELSE @,
              !.latepaid = IF key.item \in h.cancelled THEN @ \cup {key} ELSE @,
              !.recalled = @ \/ Call.id \in h.called,
              !.called = (@ \cup {Call.id}) \cap {sigq[k].id : k \in 2 .. Len(sigq)}]

\* execute_payment of a network invoice: do_pay_ln queues the payment on the
\* wallet thread and returns; schedule_next_task follows at once
execute_payment_ln ==
    /\ proc = "up" /\ gui = <<>> /\ sigq /= <<>>
    /\ Call.item.invoice.type = PR_TYPE_LN
    /\ Len(lnq) < MaxLnQueue
    /\ IF ~main_window
       THEN /\ sigq' = Tail(sigq)
            /\ UNCHANGED <<scheduled_tasks, timers, lnq, hist>>
       ELSE LET tasks1 == CleanUp(scheduled_tasks, Call.item)
                r == schedule_next_task(file, tasks1, timers,
                                        IdsAfterCall(tasks1, Tail(sigq)), now,
                                        Call.item, Call.target)
            IN /\ ~r.full
               /\ sigq' = Tail(sigq)
               /\ lnq' = Append(lnq, ExecKey(Call))
               /\ scheduled_tasks' = r.tasks
               /\ timers' = r.timers
               /\ hist' = [Paid(hist, ExecKey(Call)) EXCEPT !.raised = @ \/ r.err]
    /\ UNCHANGED <<proc, now, file, main_window, connections, gui, lnrun, win, stack>>

\* execute_payment on chain, when make_unsigned_transaction or
\* sign_transaction raises: the exception leaves execute_payment
execute_payment_raises ==
    /\ proc = "up" /\ gui = <<>> /\ sigq /= <<>>
    /\ Call.item.invoice.type = PR_TYPE_ONCHAIN
    /\ main_window
    /\ sigq' = Tail(sigq)
    /\ scheduled_tasks' = CleanUp(scheduled_tasks, Call.item)
    /\ hist' = [hist EXCEPT !.failed = @ \cup {Stored(Call.item)},
                            !.called = @ \cap {sigq[k].id : k \in 2 .. Len(sigq)}]
    /\ UNCHANGED <<proc, now, file, timers, main_window, connections, gui, lnq, lnrun, win, stack>>

\* invoice['transaction'] = ... changes the dict every queued call of the
\* same emission holds
SetTransaction(q, id) ==
    [k \in 1 .. Len(q) |->
        IF q[k].id = id THEN [q[k] EXCEPT !.item.invoice.transaction = TRUE] ELSE q[k]]

\* execute_payment on chain up to the broadcast, which blocks the GUI thread
execute_payment_onchain ==
    /\ proc = "up" /\ gui = <<>> /\ sigq /= <<>>
    /\ Call.item.invoice.type = PR_TYPE_ONCHAIN
    /\ IF ~main_window
       THEN /\ sigq' = Tail(sigq)
            /\ UNCHANGED <<scheduled_tasks, gui, hist>>
       ELSE /\ scheduled_tasks' = CleanUp(scheduled_tasks, Call.item)
            /\ sigq' = SetTransaction(Tail(sigq), Call.id)
            /\ gui' = SetTransaction(<<Call>>, Call.id)
            /\ hist' = Paid(hist, ExecKey(Call))
    /\ UNCHANGED <<proc, now, file, timers, main_window, connections, lnq, lnrun, win, stack>>

\* the broadcast returns, accepted or rejected (do_broadcast_transaction and
\* do_pay_on_chain catch the rejection), then sleep and schedule_next_task
broadcast_returns(ok) ==
    /\ proc = "up" /\ gui /= <<>>
    /\ LET call == gui[1]
           r == schedule_next_task(file, scheduled_tasks, timers,
                                   IdsAfterCall(scheduled_tasks, sigq), now,
                                   call.item, call.target)
       IN /\ ~r.full
          /\ gui' = <<>>
          /\ scheduled_tasks' = r.tasks
          /\ timers' = r.timers
          /\ hist' = [hist EXCEPT
                        !.failed = IF ok THEN @ ELSE @ \cup {Stored(call.item)},
                        !.raised = @ \/ r.err]
    /\ UNCHANGED <<proc, now, file, main_window, connections, sigq, lnq, lnrun, win, stack>>

\* the wallet thread takes the next queued ln_pay_task
ln_pay_task_starts ==
    /\ proc = "up" /\ lnrun = <<>> /\ lnq /= <<>>
    /\ lnrun' = <<Head(lnq)>>
    /\ lnq' = Tail(lnq)
    /\ UNCHANGED <<proc, now, file, scheduled_tasks, timers, main_window, connections,
                   sigq, gui, win, stack, hist>>

\* ln_pay_run returns in the wallet thread, paid or not
ln_pay_task_done(ok) ==
    /\ proc = "up" /\ lnrun /= <<>>
    /\ lnrun' = <<>>
    /\ hist' = IF ok THEN hist ELSE [hist EXCEPT !.failed = @ \cup {lnrun[1].item}]
    /\ UNCHANGED <<proc, now, file, scheduled_tasks, timers, main_window, connections,
                   sigq, gui, lnq, win, stack>>

\* ------------------------------------------------------- payments dialog
\* CronPaymentsList.update: one row per record of the file
ListRows(items) == [k \in 1 .. Len(items) |-> RowOf(items[k])]

\* Tools > Scheduled payments in window w: CronPaymentsDialog and its list
on_cron_payments_menu_clicked(w) ==
    /\ proc = "up" /\ gui = <<>>
    /\ w <= connections
    /\ win[w].mode = "main"
    /\ LET current_schedule == read_schedule_file(file) IN
       /\ ItemsUsable(current_schedule)
       /\ win' = [win EXCEPT ![w] = [mode |-> "payments",
                                     rows |-> ListRows(current_schedule.items),
                                     snap |-> NoItemsFile]]
    /\ UNCHANGED <<proc, now, file, scheduled_tasks, timers, main_window, connections,
                   sigq, gui, lnq, lnrun, stack, hist>>

\* the payments dialog of window w is closed
close_payments_dialog(w) ==
    /\ proc = "up" /\ gui = <<>>
    /\ win[w].mode = "payments"
    /\ win' = [win EXCEPT ![w] = MainWindow]
    /\ UNCHANGED <<proc, now, file, scheduled_tasks, timers, main_window, connections,
                   sigq, gui, lnq, lnrun, stack, hist>>

\* lines 203-210: the record of the file a row stands for
RowMatches(item, row) ==
    LET inv == item.invoice IN
    IF inv.type = PR_TYPE_ONCHAIN
    THEN /\ format_amount(inv.amount, TRUE) = row.amount
         /\ inv.message = row.message
         /\ inv.address = row.address
    ELSE /\ format_amount(inv.amount, TRUE) = row.amount
         /\ inv.message = row.message
         /\ inv.pubkey = row.address

\* lines 198-210: current_schedule['items'] without the first match of row
RemoveRow(items, row) ==
    LET k == FirstIndex({j \in 1 .. Len(items) : RowMatches(items[j], row)}) IN
    IF k = 0 THEN items ELSE RemoveAt(items, k)

\* line 616, ['type'] == PR_TYPE_ONCHAIN: a list never equals the constant
TypeIsOnchain(inv) == FALSE

\* cancel_started_task: the registry and the timers after its loop from k
\* on; err: inv['pubkey'] raised KeyError
RECURSIVE CancelLoop(_, _, _, _, _, _)
CancelLoop(tasks, k, tms, address, amount, message) ==
    IF k > Len(tasks)
    THEN [tasks |-> tasks, timers |-> tms, err |-> FALSE]
    ELSE LET inv == tasks[k].i.invoice
             cancelled == [tasks |-> RemoveAt(tasks, k),
                           timers |-> {tm \in tms : tm.id /= tasks[k].t},
                           err |-> FALSE]
         IN
         IF TypeIsOnchain(inv)
         THEN IF /\ format_amount(inv.amount, FALSE) = amount
                 /\ inv.address = address
                 /\ inv.message = message
              THEN cancelled
              ELSE CancelLoop(tasks, k + 1, tms, address, amount, message)
         ELSE IF format_amount(inv.amount, FALSE) /= amount
              THEN CancelLoop(tasks, k + 1, tms, address, amount, message)
              ELSE IF inv.pubkey = NoKey
              THEN [tasks |-> tasks, timers |-> tms, err |-> TRUE]
              ELSE IF inv.pubkey = address /\ inv.message = message
              THEN cancelled
              ELSE CancelLoop(tasks, k + 1, tms, address, amount, message)

cancel_started_task(tasks, tms, address, amount, message) ==
    CancelLoop(tasks, 1, tms, address, amount, message)

\* a timer of the registry is pending for cron_item
Armed(cron_item) ==
    \E k \in 1 .. Len(scheduled_tasks) :
        /\ scheduled_tasks[k].i = cron_item
        /\ \E tm \in timers : tm.id = scheduled_tasks[k].t

InList(items, x) == \E k \in 1 .. Len(items) : items[k] = x

\* the tasks a cancel of row takes out of the list items for good
TakenOut(items, row) ==
    {items[k] : k \in {j \in 1 .. Len(items) : ~InList(RemoveRow(items, row), items[j])}}

\* Cancel payment in the payments dialog of window w, row k selected
on_cancel_button_clicked(w, k) ==
    /\ proc = "up" /\ gui = <<>>
    /\ win[w].mode = "payments"
    /\ k \in 1 .. Len(win[w].rows)
    /\ LET row == win[w].rows[k]
           current_schedule == read_schedule_file(file)
           r == cancel_started_task(scheduled_tasks, timers,
                                    row.address, row.amount, row.message)
       IN /\ ItemsUsable(current_schedule)
          /\ win' = [win EXCEPT ![w].rows = RemoveAt(@, k)]
          /\ file' = write_schedule_file(
                        DictFile(RemoveRow(current_schedule.items, row)))
          /\ scheduled_tasks' = r.tasks
          /\ timers' = r.timers
          /\ hist' = [hist EXCEPT
                        !.cancelled =
                            @ \cup {c \in TakenOut(current_schedule.items, row) : Armed(c)},
                        !.wrote = <<RemoveRow(current_schedule.items, row)>>,
                        !.miscut =
                            @ \/ /\ ListRows(current_schedule.items) = win[w].rows
                                 /\ RemoveRow(current_schedule.items, row)
                                        /= RemoveAt(current_schedule.items, k),
                        !.midfire =
                            @ \cup {c \in TakenOut(current_schedule.items, row) :
                                       \/ \E j \in 1 .. Len(sigq) : Stored(sigq[j].item) = c
                                       \/ \E j \in 1 .. Len(gui) : Stored(gui[j].item) = c}]
    /\ UNCHANGED <<proc, now, main_window, connections, sigq, gui, lnq, lnrun, stack>>

\* -------------------------------------------------------- schedule button
Top == stack[Len(stack)]
Pop == SubSeq(stack, 1, Len(stack) - 1)

\* ScheduleButton._on_clicked in window w up to schedule_dialog.exec_():
\* the file is read before the dialogs open
schedule_clicked(w) ==
    /\ proc = "up" /\ gui = <<>>
    /\ w <= connections
    /\ win[w].mode = "main"
    /\ LET current_schedule == read_schedule_file(file) IN
       /\ ItemsUsable(current_schedule)
       /\ win' = [win EXCEPT ![w] = [mode |-> "schedule", rows |-> <<>>,
                                     snap |-> DictFile(current_schedule.items)]]
    /\ stack' = Append(stack, w)
    /\ UNCHANGED <<proc, now, file, scheduled_tasks, timers, main_window, connections,
                   sigq, gui, lnq, lnrun, hist>>

\* a dialog of _on_clicked is closed without Ok or Start: it returns
schedule_rejected ==
    /\ proc = "up" /\ gui = <<>>
    /\ stack /= <<>>
    /\ win[Top].mode = "schedule"
    /\ win' = [win EXCEPT ![Top] = MainWindow]
    /\ stack' = Pop
    /\ UNCHANGED <<proc, now, file, scheduled_tasks, timers, main_window, connections,
                   sigq, gui, lnq, lnrun, hist>>

\* lines 410-429 and 435-440: the list _on_clicked writes for new_item
AppendItem(snap, new_item) == DictFile(Append(snap.items, new_item))

\* the dialogs are accepted: the new record is appended to the list read at
\* the click and the list is written; show_message opens
schedule_accepted(new_item) ==
    /\ proc = "up" /\ gui = <<>>
    /\ stack /= <<>>
    /\ win[Top].mode = "schedule"
    /\ Len(win[Top].snap.items) < MaxStore
    /\ file' = write_schedule_file(AppendItem(win[Top].snap, new_item))
    /\ win' = [win EXCEPT ![Top] = [mode |-> "message", rows |-> <<>>,
                                    snap |-> NoItemsFile]]
    /\ hist' = [hist EXCEPT
                  !.cancelled = @ \ {new_item},
                  !.midfire = @ \ {new_item},
                  !.wrote = <<AppendItem(win[Top].snap, new_item).items>>,
                  !.lost = @ \/ win[Top].snap.items /= read_schedule_file(file).items]
    /\ UNCHANGED <<proc, now, scheduled_tasks, timers, main_window, connections,
                   sigq, gui, lnq, lnrun, stack>>

\* show_message returns and _on_clicked ends with start_scheduler
message_closed ==
    /\ proc = "up" /\ gui = <<>>
    /\ stack /= <<>>
    /\ win[Top].mode = "message"
    /\ LET r == start_scheduler(file, scheduled_tasks, timers, UsedIds, now) IN
       /\ ~r.full
       /\ scheduled_tasks' = r.tasks
       /\ timers' = r.timers
       /\ hist' = [hist EXCEPT !.raised = @ \/ r.err]
    /\ win' = [win EXCEPT ![Top] = MainWindow]
    /\ stack' = Pop
    /\ UNCHANGED <<proc, now, file, main_window, connections, sigq, gui, lnq, lnrun>>

\* the process dies inside write_schedule_file, after open(path, "w") has
\* truncated the file and before the text is written out in full
Died(h, old, new) ==
    [h EXCEPT !.fired = {}, !.failed = {}, !.nquits = @ + 1, !.wrote = <<>>,
              !.raised = FALSE, !.midfire = {}, !.called = {}, !.recalled = FALSE,
              !.crash = <<[old |-> old, new |-> new]>>]

crash_in_write ==
    /\ proc = "up" /\ gui = <<>>
    /\ hist.nquits < MaxRestarts
    /\ \/ /\ stack /= <<>>
          /\ win[Top].mode = "schedule"
          /\ Len(win[Top].snap.items) < MaxStore
          /\ \E new_item \in NewItems :
                hist' = Died(hist, read_schedule_file(file).items,
                             AppendItem(win[Top].snap, new_item).items)
       \/ \E w \in Windows : \E k \in 1 .. Len(win[w].rows) :
          /\ win[w].mode = "payments"
          /\ hist' = Died(hist, read_schedule_file(file).items,
                          RemoveRow(read_schedule_file(file).items, win[w].rows[k]))
    /\ file' = TextFile
    /\ proc' = "down"
    /\ scheduled_tasks' = <<>>
    /\ timers' = {}
    /\ main_window' = FALSE
    /\ connections' = 0
    /\ sigq' = <<>>
    /\ gui' = <<>>
    /\ lnq' = <<>>
    /\ lnrun' = <<>>
    /\ win' = NoWindows
    /\ stack' = <<>>
    /\ UNCHANGED now

\* the process starts and ends, the wallet windows W open
Lifecycle(W) ==
    \/ Startup
    \/ Quit
    \/ init_menubar_tools(W)

\* time passes, timers fire, payments are executed
Firing ==
    \/ Advance
    \/ trigger_payment
    \/ execute_payment_ln
    \/ execute_payment_raises
    \/ execute_payment_onchain
    \/ \E ok \in BOOLEAN : broadcast_returns(ok)
    \/ ln_pay_task_starts
    \/ \E ok \in BOOLEAN : ln_pay_task_done(ok)

\* the user cancels payments in the windows W
Cancelling(W) ==
    \/ \E w \in W : on_cron_payments_menu_clicked(w)
    \/ \E w \in W : close_payments_dialog(w)
    \/ \E w \in W : \E k \in 1 .. MaxStore : on_cancel_button_clicked(w, k)

\* the user schedules payments of items in the windows W
Scheduling(W, items) ==
    \/ \E w \in W : schedule_clicked(w)
    \/ schedule_rejected
    \/ \E new_item \in items : schedule_accepted(new_item)
    \/ message_closed

Next ==
    \/ Lifecycle(Windows)
    \/ Firing
    \/ Cancelling(Windows)
    \/ Scheduling(Windows, NewItems)
    \/ crash_in_write

Spec == Init /\ [][Next]_vars

Stores(items) == {DictFile(s) : s \in SeqsUpTo(items, MaxStore)}

\* the scheduler alone, each persisted task of another identity
NextTimer == Lifecycle(Windows) \/ Firing
SpecTimer == InitDistinct /\ [][NextTimer]_vars

\* the scheduler and the payments dialog of the first window
InitCancel == InitWith(Stores({OnchainMinute, LnMinute, LnWide}))
NextCancel == Lifecycle({1}) \/ Firing \/ Cancelling({1})
SpecCancel == InitCancel /\ [][NextCancel]_vars

\* the file and its writers in two windows, the clock standing still
InitStore ==
    /\ InitWith({MissingFile, TextFile, NonDictFile, NoItemsFile, BadItemsFile}
                \cup Stores({OnchainMinute, LnWide}))
    /\ now = StartTime
NextStore ==
    \/ Lifecycle(Windows)
    \/ Cancelling({2})
    \/ Scheduling(Windows, {OnchainMinute, LnWide})
    \/ crash_in_write
SpecStore == InitStore /\ [][NextStore]_vars

\* the scheduler with one wallet window
NextSingle == Lifecycle({1}) \/ Firing
SpecSingle == InitDistinct /\ [][NextSingle]_vars

\* ------------------------------------------------------------------ claims
\* C1: a task is executed at most once for each fire time computed for it,
\* and the timer armed after an execution targets a fire time strictly later
\* than the one just executed.
C1_OncePerFireTime ==
    /\ hist.repaid = {}
    /\ \A tm \in timers : tm.prev >= 0 => tm.target > tm.prev

\* the handling of a fired cron_item is over: no call of on_scheduled_payment
\* for it is queued or running
Settled(cron_item) ==
    /\ \A k \in 1 .. Len(sigq) : Stored(sigq[k].item) /= cron_item
    /\ \A k \in 1 .. Len(gui) : Stored(gui[k].item) /= cron_item

Persisted(cron_item) == InList(read_schedule_file(file).items, cron_item)

\* C2: at most one armed timer exists for a task identity (kind, amount,
\* message, recipient or invoice) in every reachable state.
C2_OneTimerPerIdentity ==
    \A tm1 \in timers : \A tm2 \in timers :
        Identity(tm1.item) = Identity(tm2.item) => tm1 = tm2

\* C3: once the cancel of an armed task has returned, no timer is pending
\* for the task and its payment is never executed.
C3_CancelStopsTimer ==
    /\ \A c \in hist.cancelled : \A tm \in timers : tm.item /= c
    /\ hist.latepaid = {}

\* C4: a cancelled task is in neither the registry nor the file, and no
\* timer is armed for it, before and after a restart.
C4_CancelledIsGone ==
    \A c \in hist.cancelled :
        /\ ~is_task_started(scheduled_tasks, c)
        /\ ~Persisted(c)
        /\ ~Armed(c)

\* C5: when the execution of a task failed and the task is still in the
\* file, the firing ends with the task armed for its next occurrence.
C5_RearmedAfterFailure ==
    \A c \in hist.failed :
        (proc = "up" /\ Settled(c) /\ Persisted(c)) => Armed(c)

\* the executor calls that have not returned: the broadcast the GUI thread
\* waits for, the payments queued on or run by the wallet thread
InProgress ==
    [k \in 1 .. Len(gui) |-> Stored(gui[k].item)]
    \o [k \in 1 .. Len(lnrun) |-> lnrun[k].item]
    \o [k \in 1 .. Len(lnq) |-> lnq[k].item]

\* C6: no timer is armed for a task while an executor call of an earlier
\* firing of it has not returned, and no two executor calls of one task are
\* in progress together.
C6_SequentialExecutions ==
    /\ \A k \in 1 .. Len(InProgress) : \A tm \in timers :
          Identity(tm.item) /= Identity(InProgress[k])
    /\ \A j \in 1 .. Len(InProgress) : \A k \in 1 .. Len(InProgress) :
          Identity(InProgress[j]) = Identity(InProgress[k]) => j = k

\* C7: a task with a valid schedule that stays in the file is armed again
\* once the handling of its timer fire is over, window attached or not.
C7_FiresForever ==
    \A c \in hist.fired :
        (proc = "up" /\ Settled(c) /\ Persisted(c) /\ CronValid(c.schedule))
            => Armed(c)

\* C8: with the file missing, empty or malformed the plugin starts without
\* an error and with no task armed.
C8_BadFileStartsEmpty ==
    (proc /= "down" /\ file.kind \in {"missing", "text", "nondict", "baditems"})
        => (proc = "up" /\ scheduled_tasks = <<>> /\ timers = {})

\* C9: after the process died inside a write, the file loads as the complete
\* list of before the write or as the complete new list.
C9_WriteAllOrNothing ==
    \A k \in 1 .. Len(hist.crash) :
        proc = "down" =>
            read_schedule_file(file).items \in {hist.crash[k].old, hist.crash[k].new}

\* C10: no append and no remove drops what another handler wrote to the
\* file since the list was read.
C10_NoLostUpdate == ~hist.lost

RestartArms(tms, f, t) ==
    LET items == read_schedule_file(f).items
        valid == {items[k] : k \in {j \in 1 .. Len(items) : CronValid(items[j].schedule)}}
    IN /\ \A c \in valid :
            Cardinality({tm \in tms : tm.item = c}) = 1
       /\ \A tm \in tms :
            /\ tm.item \in valid
            /\ tm.target = get_next(tm.item.schedule, t)

\* C12: a restart arms exactly one timer for every persisted task, for its
\* next fire time after the time of the restart, however many fire times
\* passed while the process was down.
C12_RestartArmsOnce ==
    [][(proc = "down" /\ proc' /= "down" /\ ItemsUsable(read_schedule_file(file)))
          => RestartArms(timers', file, now)]_vars

\* the scheduler and the schedule button, with a text croniter rejects
InitInvalid == InitWith(Stores({OnchainMinute, LnMinute, OnchainBad})) /\ now = StartTime
NextInvalid == Lifecycle({1}) \/ Firing \/ Scheduling({1}, {LnMinute, OnchainBad})
SpecInvalid == InitInvalid /\ [][NextInvalid]_vars

\* a record of the file has a schedule croniter rejects
InvalidPersisted ==
    LET items == read_schedule_file(file).items IN
    \E k \in 1 .. Len(items) : ~CronValid(items[k].schedule)

InitLong == InitWith(Stores({LnMinute, OnchainOtherDay})) /\ now = StartTime
SpecLong == InitLong /\ [][NextSingle]_vars

\* C14: every pending timer elapses at the fire time it was armed for: the
\* delay given to call_later is the whole distance from now to that fire
\* time, also when the distance is more than a day.
C14_TimerElapsesAtFireTime ==
    \A tm \in timers : tm.at = tm.target

\* C15: a task taken out of the file while it was firing is still executed,
\* unless building its transaction failed, and no timer is armed for it
\* once its firing is over.
C15_NoRearmAfterMidfireCancel ==
    \A c \in hist.midfire :
        (Settled(c) /\ ~Persisted(c)) =>
            /\ \A tm \in timers : tm.item /= c
            /\ c \notin hist.failed => \E key \in hist.paid : key.item = c

\* a task was cancelled between its timer fire and its execution, has been
\* executed since and is not armed
C15_Witness ==
    \E c \in hist.midfire :
        /\ proc = "up" /\ Settled(c) /\ ~Persisted(c)
        /\ \E key \in hist.paid : key.item = c
        /\ \A tm \in timers : tm.item /= c

\* C16: a step that arms a task again after an execution also writes the
\* file, whose record of the task gets the time of the run.
C16_LastRunWritten ==
    [][(\E tm \in timers' \ timers : tm.prev >= 0) => file' /= file]_vars

\* C17: the payment backend is called at most once for one timer fire,
\* however many wallet windows have connected the signal.
C17_OneCallPerFire == ~hist.recalled

\* C18: while an executor call is in progress, a queued fire of another task
\* can start its own execution: no executor call holds up the thread that
\* runs execute_payment. (Queue and timer handles are not exhausted.)
C18_FiringNotBlocked ==
    (/\ proc = "up" /\ main_window /\ sigq /= <<>>
     /\ \E k \in 1 .. Len(InProgress) :
            Identity(InProgress[k]) /= Identity(Stored(Head(sigq).item))
     /\ Len(lnq) < MaxLnQueue
     /\ TimerIds \ UsedIds /= {})
        => ENABLED (execute_payment_ln \/ execute_payment_onchain \/ execute_payment_raises)

\* every record of the file has a registry entry with a pending timer
AllArmed ==
    LET items == read_schedule_file(file).items IN
    /\ ItemsUsable(read_schedule_file(file))
    /\ \A k \in 1 .. Len(items) : Armed(items[k])

\* C19: start_scheduler called when every task of the file is armed adds no
\* timer, raises nothing and leaves the registry and its timers as they were.
C19_DuplicateArmIsNoOp ==
    [][(/\ proc = "up" /\ stack /= <<>> /\ stack' /= stack
        /\ win[stack[Len(stack)]].mode = "message"
        /\ proc' = "up"
        /\ AllArmed)
          => /\ UNCHANGED <<scheduled_tasks, timers>>
             /\ hist'.raised = hist.raised]_vars

\* a record equal to an armed one was scheduled, its message was closed, and
\* the one registry entry and the one timer are all there is
C19_Witness ==
    /\ proc = "up" /\ stack = <<>>
    /\ hist.wrote /= <<>>
    /\ Len(hist.wrote[1]) = 2
    /\ hist.wrote[1][1] = hist.wrote[1][2]
    /\ read_schedule_file(file).items = hist.wrote[1]
    /\ Len(scheduled_tasks) = 1
    /\ Cardinality(timers) = 1
    /\ AllArmed

\* C20: outside the handling of a timer fire, every registry entry holds a
\* pending timer, and every pending timer is held by a registry entry.
C20_RegistryMatchesTimers ==
    proc /= "down" =>
        /\ \A k \in 1 .. Len(scheduled_tasks) :
              Settled(scheduled_tasks[k].i) =>
                  \E tm \in timers : tm.id = scheduled_tasks[k].t
        /\ \A tm \in timers :
              \E k \in 1 .. Len(scheduled_tasks) : scheduled_tasks[k].t = tm.id

\* this step is a pass of start_scheduler: in Plugin.__init__, or at the end
\* of ScheduleButton._on_clicked
StartSchedulerStep ==
    \/ proc = "down" /\ proc' /= "down"
    \/ /\ proc = "up" /\ proc' = "up"
       /\ stack /= <<>> /\ stack' /= stack
       /\ win[stack[Len(stack)]].mode = "message"

\* C21: after a pass of start_scheduler every record of the file with a
\* valid schedule is in the registry, wherever a record with a schedule
\* that cannot be evaluated stands in the list.
C21_BadTaskLeavesOthersArmed ==
    [][(StartSchedulerStep /\ ItemsUsable(read_schedule_file(file)))
          => \A k \in 1 .. Len(read_schedule_file(file).items) :
                CronValid(read_schedule_file(file).items[k].schedule)
                    => is_task_started(scheduled_tasks',
                                       read_schedule_file(file).items[k])]_vars

\* the payments dialog of one window, over two records of one recipient,
\* amount and message with different schedules
InitTwin == InitWith(Stores({OnchainMinute, OnchainDaily})) /\ now = StartTime
NextTwin == Lifecycle({1}) \/ Cancelling({1})
SpecTwin == InitTwin /\ [][NextTwin]_vars

\* C22: a cancel writes the file without the record of the selected row
\* and with every other record as it was, in the same order.
C22_CancelRemovesSelectedRecord == ~hist.miscut

====
